---- MODULE Spec2Model ----
(***************************************************************************)
(* Model of src/src/ChatTransrator.py: the Tk application object           *)
(* ChatTranslatorApp, its poller thread (_poll_loop), the translation      *)
(* tasks it submits to its ThreadPoolExecutor (_translate_free) and the    *)
(* UI thread's handlers (start, the check boxes, the engine radio buttons, *)
(* on_close).                                                              *)
(***************************************************************************)
EXTENDS Integers, Sequences, FiniteSets, TLC

\* ---------------------------------------------------------------- bounds
\* Number of liveChatMessages.list calls one run explores.
MaxFetches == 2
\* Number of clicks on check boxes and radio buttons one run explores.
MaxClicks == 1

\* ------------------------------------------------------- config.json values
\* lang_options: display name -> language code.
LANG_OPTIONS == ("English" :> "en") @@ ("Chinese" :> "zh-CN") @@ ("Japanese" :> "ja")
ENABLED_LANGS == {"en", "zh-CN"}
DEFAULT_LANGS == {"en"}
SKIP_LANGS == {"zh-CN"}
\* translators: the radio button values; the first one is the start value.
TRANSLATORS == <<"googletrans", "libre">>

\* str.lower() on the language codes that occur.
Lower(s) == CASE s = "zh-CN" -> "zh-cn"
              [] s = "EN" -> "en"
              [] OTHER -> s

SKIP_LANGS_LOWER == {Lower(lang) : lang \in SKIP_LANGS}

\* fallback of resp.get("pollingIntervalMillis", 2000)
DefaultPollingMillis == 2000
\* milliseconds per second, the divisor of line 210
MillisPerSecond == 1000

\* ------------------------------------------------------- the chat source
MsgIds == {"m1", "m2"}
\* snippet.displayMessage of each message
TextOf == ("m1" :> "hello") @@ ("m2" :> "nihao")
ChatItem(id) == [id |-> id, text |-> TextOf[id]]
\* The item lists a page can carry: none, one message, the same message
\* twice, an earlier message followed by a new one.
Pages == {<<>>, <<ChatItem("m1")>>,
          <<ChatItem("m1"), ChatItem("m1")>>,
          <<ChatItem("m1"), ChatItem("m2")>>}
\* An optional response field is <<>> when absent and <<v>> when present.
PageTokens == {<<>>, <<"tokA">>}
PollingIntervals == {<<>>, <<5000>>}
NoResp == [items |-> <<>>, nextPageToken |-> <<>>, pollingIntervalMillis |-> <<>>]
NoRequest == [inflight |-> FALSE, pageToken |-> ""]

\* ------------------------------------------------------- the translators
\* det.lang of googletrans' detect for each text
DetLang(text) == CASE text = "hello" -> "en"
                   [] text = "nihao" -> "zh-CN"
                   [] OTHER -> "und"
\* The text a backend that answers gives for (text, dest): what
\* Translator.translate(text, dest).text and the translatedText field hold.
Translation(text, dest) == CASE text = "hello" /\ dest = "zh-CN" -> "nihao"
                             [] text = "nihao" /\ dest = "en" -> "hello"
                             [] OTHER -> text
\* What the backend of an engine can answer to one request.
BackendAnswers(engine) == CASE engine = "googletrans" -> {"ok", "error"}
                            [] engine = "libre" -> {"ok", "neterr", "non2xx", "nofield"}
                            [] OTHER -> {"unsupported"}

\* A submitted future that has not finished: submit(_translate_free, original, code).
Pending(text) == [st |-> "pending", val |-> "", text |-> text, engine |-> "",
                  answer |-> ""]

\* _translate_free(text, target_lang) run with the engine it reads and the
\* answer its backend gives: the value it returns or the message it raises with.
translate_free(text, target_lang, engine, answer) ==
    IF engine = "googletrans"
    THEN IF answer = "ok"
         THEN [st |-> "returned", val |-> Translation(text, target_lang)]
         ELSE [st |-> "raised", val |-> "request failed"]
    ELSE IF engine = "libre"
    THEN CASE answer = "neterr" -> [st |-> "raised", val |-> "request failed"]
           [] answer = "ok" -> [st |-> "returned", val |-> Translation(text, target_lang)]
           \* r.json().get("translatedText", ""): the status is not looked at,
           \* and a body without the field gives the empty string
           [] OTHER -> [st |-> "returned", val |-> ""]
    ELSE [st |-> "raised", val |-> "Unsupported translator"]

VARIABLES
    is_running,       \* self.is_running
    next_page_token,  \* self.next_page_token: <<>> is None
    translator_var,   \* self.translator_var
    chk_vars,         \* self.chk_vars: name -> BOOLEAN
    skip_vars,        \* self.skip_vars: name -> BOOLEAN
    uiPhase,          \* the UI thread: "main", "closing" (in on_close's sleep), "closed"
    startResult,      \* what the last start() did: "none", "failed", "started"
    nthreads,         \* poller threads created so far
    clicks,           \* check box and radio button clicks so far
    pc,               \* the poller thread's position
    request,          \* the liveChatMessages.list call in flight
    resp,             \* _poll_loop's local resp
    idx,              \* position of the for loop in resp's items
    seen,             \* _poll_loop's local seen
    futures,          \* the futures of the last dispatch that are not yet done
                      \* with: target code -> future
    collected,        \* the codes whose future as_completed has already yielded
    rows,             \* the rows written to the csv file, after the header
    deathCause,       \* the call whose exception ended the poller thread
    fetchCount,       \* history: fetch calls issued
    fetchErrors,      \* history: fetch calls that raised
    fetchesAfterStop, \* history: fetch calls issued while is_running was false
    sleepsSince,      \* history: sleeps since the last fetch call was issued
    sleptFor,         \* history: the argument of the last time.sleep of the loop
    forwarded         \* history: id -> times it went on to language detection

appVars == <<is_running, next_page_token>>
uiVars == <<translator_var, chk_vars, skip_vars, uiPhase, startResult, nthreads, clicks>>
loopVars == <<pc, request, resp, idx, seen, futures, collected, rows, deathCause>>
histVars == <<fetchCount, fetchErrors, fetchesAfterStop, sleepsSince, sleptFor,
              forwarded>>
vars == <<appVars, uiVars, loopVars, histVars>>

UiNames == {name \in DOMAIN LANG_OPTIONS : LANG_OPTIONS[name] \in ENABLED_LANGS}

Init ==
    /\ is_running = FALSE
    /\ next_page_token = <<>>
    /\ translator_var = TRANSLATORS[1]
    /\ chk_vars = [name \in UiNames |-> LANG_OPTIONS[name] \in DEFAULT_LANGS]
    /\ skip_vars = [name \in UiNames |-> LANG_OPTIONS[name] \in SKIP_LANGS]
    /\ uiPhase = "main"
    /\ startResult = "none"
    /\ nthreads = 0
    /\ clicks = 0
    /\ pc = "none"
    /\ request = NoRequest
    /\ resp = NoResp
    /\ idx = 1
    /\ seen = {}
    /\ futures = <<>>
    /\ collected = {}
    /\ rows = <<>>
    /\ deathCause = "none"
    /\ fetchCount = 0
    /\ fetchErrors = 0
    /\ fetchesAfterStop = 0
    /\ sleepsSince = 0
    /\ sleptFor = [num |-> 0, den |-> 1]
    /\ forwarded = [id \in MsgIds |-> 0]

\* The loop that never looks at the flag.
LoopCond_Forever(running) == TRUE

\* ------------------------------------------------- the loop's expressions
\* `while self.is_running`
LoopCond(running) == running

\* pageToken=self.next_page_token or ""
PageTokenArg(tok) == IF tok = <<>> \/ tok = <<"">> THEN "" ELSE tok[1]

\* The token is only taken over from a page that carries items.
UpdatedToken_KeepOnEmpty(r, old) == IF r.items = <<>> THEN old ELSE r.nextPageToken

\* self.next_page_token = resp.get("nextPageToken")
UpdatedToken(r, old) == r.nextPageToken

\* The interval of the response is ignored for the fallback.
Interval_Fixed(r) == [num |-> DefaultPollingMillis, den |-> MillisPerSecond]

\* interval = float(resp.get("pollingIntervalMillis", 2000)) / 1000, in seconds
\* as the fraction num/den
Interval(r) ==
    [num |-> IF r.pollingIntervalMillis = <<>> THEN DefaultPollingMillis
             ELSE r.pollingIntervalMillis[1],
     den |-> MillisPerSecond]

\* The seen test is left out.
IsNew_Always(id, s) == TRUE

\* `if item["id"] in seen: continue`
IsNew(id, s) == id \notin s

\* _detect_language(text): det.lang.lower()
detect_language(text) == Lower(DetLang(text))

\* ui_skip: the lowered codes whose skip check box is ticked
ui_skip(sv) == {Lower(LANG_OPTIONS[name]) : name \in {n \in DOMAIN LANG_OPTIONS :
                                                       n \in DOMAIN sv /\ sv[n]}}

\* Only the configured list is consulted, the check boxes are not.
ShouldSkip_ConfigOnly(detected, sv) == detected \in SKIP_LANGS_LOWER

\* The skip test is bypassed while the remote-service engine is selected.
ShouldSkip_LibreBypass(detected, sv) ==
    /\ translator_var # "libre"
    /\ (detected \in SKIP_LANGS_LOWER \/ detected \in ui_skip(sv))

\* The detected language is compared with the configured codes as written.
ShouldSkip_CaseSensitive(detected, sv) ==
    detected \in SKIP_LANGS \/ detected \in ui_skip(sv)

\* `if detected in SKIP_LANGS_LOWER or detected in ui_skip`
ShouldSkip(detected, sv) == detected \in SKIP_LANGS_LOWER \/ detected \in ui_skip(sv)

\* The configured default targets are added to the ticked ones.
target_codes_WithDefaults(cv) ==
    (DEFAULT_LANGS \cap ENABLED_LANGS)
        \cup {LANG_OPTIONS[name] : name \in {n \in DOMAIN LANG_OPTIONS :
                                                n \in DOMAIN cv /\ cv[n]}}

\* target_codes: the codes whose translate check box is ticked
target_codes(cv) == {LANG_OPTIONS[name] : name \in {n \in DOMAIN LANG_OPTIONS :
                                                    n \in DOMAIN cv /\ cv[n]}}

\* One raised future turns every outcome of its batch into an error.
OutcomeText_Poisoned(futs, code) ==
    IF \E c \in DOMAIN futs : futs[c].st = "raised"
    THEN "[Error] " \o "request failed"
    ELSE futs[code].val

\* tr of one yielded future: fut.result(), or "[Error] e" when it raised
OutcomeText(futs, code) ==
    IF futs[code].st = "raised" THEN "[Error] " \o futs[code].val ELSE futs[code].val

\* The loop leaves without waiting for any future.
BatchDone_NoWait(futs, coll) == TRUE

\* The loop leaves after the first future that completed.
BatchDone_FirstCompleted(futs, coll) == coll # {} \/ DOMAIN futs = {}

\* as_completed(futures) is exhausted: every future has been yielded
BatchDone(futs, coll) == coll = DOMAIN futs

\* self.log and csv_writer.writerow succeed while the window and the file exist
SinkOpen == uiPhase \in {"main", "closing"}

\* ----------------------- the skip set and the targets a row is recorded with
\* The union of the configured skip languages and the ticked skip toggles,
\* compared in lower case.
SkipSetNow == {Lower(c) : c \in SKIP_LANGS}
                \cup {Lower(LANG_OPTIONS[n]) : n \in {m \in UiNames : skip_vars[m]}}
\* The target languages ticked at this moment.
TargetsNow == {LANG_OPTIONS[n] : n \in {m \in UiNames : chk_vars[m]}}

\* The first position of a message id in the item list of the page in hand.
FirstPos(id) == CHOOSE i \in DOMAIN resp.items :
                    /\ resp.items[i].id = id
                    /\ \A j \in DOMAIN resp.items : resp.items[j].id = id => i <= j

\* A row of the csv file, [ts, author, lang, original, translated], with the kind
\* of the log line that goes with it. Recorded with it: the engine selected,
\* whether the detected language was in the skip set and whether its skip check
\* box was ticked, the targets ticked, the number of the fetch call whose page
\* carried the item and the item's place in that page.
MsgRow(kind, item, lang, inSkip, targets) ==
    [kind |-> kind, id |-> item.id, lang |-> lang, original |-> item.text,
     translated |-> item.text,
     engine |-> translator_var, inSkipSet |-> inSkip, targets |-> targets,
     skipTicked |-> \E n \in UiNames : skip_vars[n] /\ Lower(LANG_OPTIONS[n]) =
                                                         Lower(DetLang(item.text)),
     fetchNo |-> fetchCount, pos |-> FirstPos(item.id)]
TransRow(item, code, tr) ==
    [kind |-> "trans", id |-> item.id, lang |-> code, original |-> item.text,
     translated |-> tr,
     engine |-> "", inSkipSet |-> FALSE, targets |-> {},
     skipTicked |-> FALSE, fetchNo |-> fetchCount, pos |-> FirstPos(item.id)]

\* ------------------------------------------------------------ UI thread
\* start() without its test of is_running: every click creates a thread.
StartOk_NoGuard ==
    /\ uiPhase = "main"
    /\ nthreads < 2
    /\ is_running' = TRUE
    /\ pc' = "test"
    /\ nthreads' = nthreads + 1
    /\ startResult' = "started"
    /\ UNCHANGED <<next_page_token, translator_var, chk_vars, skip_vars, uiPhase,
                   clicks, request, resp, idx, seen, futures, collected, rows,
                   deathCause, fetchCount, fetchErrors, fetchesAfterStop, sleepsSince,
                   sleptFor, forwarded>>

\* start(): both lookups succeed, the poller thread is created.
StartOk ==
    /\ uiPhase = "main"
    /\ ~is_running
    /\ is_running' = TRUE
    /\ pc' = "test"
    /\ nthreads' = nthreads + 1
    /\ startResult' = "started"
    /\ UNCHANGED <<next_page_token, translator_var, chk_vars, skip_vars, uiPhase,
                   clicks, request, resp, idx, seen, futures, collected, rows,
                   deathCause, fetchCount, fetchErrors, fetchesAfterStop, sleepsSince,
                   sleptFor, forwarded>>

\* start() that sets is_running before the lookups and leaves it set.
StartFail_FlagFirst ==
    /\ uiPhase = "main"
    /\ ~is_running
    /\ is_running' = TRUE
    /\ startResult' = "failed"
    /\ UNCHANGED <<next_page_token, translator_var, chk_vars, skip_vars,
                   uiPhase, nthreads, clicks, pc, request, resp, idx, seen, futures,
                   collected, rows, deathCause, fetchCount, fetchErrors,
                   fetchesAfterStop, sleepsSince, sleptFor, forwarded>>

\* start(): get_live_video_id or get_live_chat_id raises; showerror, return.
StartFail ==
    /\ uiPhase = "main"
    /\ ~is_running
    /\ startResult' = "failed"
    /\ UNCHANGED <<is_running, next_page_token, translator_var, chk_vars, skip_vars,
                   uiPhase, nthreads, clicks, pc, request, resp, idx, seen, futures,
                   collected, rows, deathCause, fetchCount, fetchErrors,
                   fetchesAfterStop, sleepsSince, sleptFor, forwarded>>

\* A "translate into" check box is clicked.
ToggleChk(name) ==
    /\ uiPhase = "main"
    /\ clicks < MaxClicks
    /\ clicks' = clicks + 1
    /\ chk_vars' = [chk_vars EXCEPT ![name] = ~@]
    /\ UNCHANGED <<is_running, next_page_token, translator_var, skip_vars, uiPhase,
                   startResult, nthreads, pc, request, resp, idx, seen, futures,
                   collected, rows, deathCause, fetchCount, fetchErrors,
                   fetchesAfterStop, sleepsSince, sleptFor, forwarded>>

\* A "skip" check box is clicked.
ToggleSkip(name) ==
    /\ uiPhase = "main"
    /\ clicks < MaxClicks
    /\ clicks' = clicks + 1
    /\ skip_vars' = [skip_vars EXCEPT ![name] = ~@]
    /\ UNCHANGED <<is_running, next_page_token, translator_var, chk_vars, uiPhase,
                   startResult, nthreads, pc, request, resp, idx, seen, futures,
                   collected, rows, deathCause, fetchCount, fetchErrors,
                   fetchesAfterStop, sleepsSince, sleptFor, forwarded>>

\* An engine radio button is clicked.
SelectEngine(e) ==
    /\ uiPhase = "main"
    /\ translator_var # e
    /\ clicks < MaxClicks
    /\ clicks' = clicks + 1
    /\ translator_var' = e
    /\ UNCHANGED <<is_running, next_page_token, chk_vars, skip_vars, uiPhase,
                   startResult, nthreads, pc, request, resp, idx, seen, futures,
                   collected, rows, deathCause, fetchCount, fetchErrors,
                   fetchesAfterStop, sleepsSince, sleptFor, forwarded>>

\* on_close, first statement: is_running = False; then it sleeps 0.5 s.
OnClose ==
    /\ uiPhase = "main"
    /\ is_running' = FALSE
    /\ uiPhase' = "closing"
    /\ UNCHANGED <<next_page_token, translator_var, chk_vars, skip_vars, startResult,
                   nthreads, clicks, pc, request, resp, idx, seen, futures, collected,
                   rows, deathCause, fetchCount, fetchErrors, fetchesAfterStop,
                   sleepsSince, sleptFor, forwarded>>

\* on_close after the sleep: csv_file.close() and destroy().
OnCloseFinish ==
    /\ uiPhase = "closing"
    /\ uiPhase' = "closed"
    /\ UNCHANGED <<is_running, next_page_token, translator_var, chk_vars, skip_vars,
                   startResult, nthreads, clicks, pc, request, resp, idx, seen,
                   futures, collected, rows, deathCause, fetchCount, fetchErrors,
                   fetchesAfterStop, sleepsSince, sleptFor, forwarded>>

\* ---------------------------------------------------------- poller thread
\* The for loop walks the page from its end.
CurItem_Reversed == resp.items[Len(resp.items) + 1 - idx]

\* `for item in resp.get("items", [])`: the item in hand
CurItem == resp.items[idx]

\* The loop test of `while self.is_running`.
LoopTest ==
    /\ pc = "test"
    /\ pc' = IF LoopCond(is_running) THEN "fetch" ELSE "done"
    /\ UNCHANGED <<is_running, next_page_token, translator_var, chk_vars, skip_vars,
                   uiPhase, startResult, nthreads, clicks, request, resp, idx, seen,
                   futures, collected, rows, deathCause, fetchCount, fetchErrors,
                   fetchesAfterStop, sleepsSince, sleptFor, forwarded>>

\* liveChatMessages().list(...).execute() is called.
FetchCall ==
    /\ pc = "fetch"
    /\ fetchCount < MaxFetches
    /\ request' = [inflight |-> TRUE, pageToken |-> PageTokenArg(next_page_token)]
    /\ pc' = "fetching"
    /\ fetchCount' = fetchCount + 1
    /\ fetchesAfterStop' = fetchesAfterStop + (IF is_running THEN 0 ELSE 1)
    /\ sleepsSince' = 0
    /\ UNCHANGED <<is_running, next_page_token, translator_var, chk_vars, skip_vars,
                   uiPhase, startResult, nthreads, clicks, resp, idx, seen, futures,
                   collected, rows, deathCause, fetchErrors, sleptFor, forwarded>>

\* The call returns a page: lines 209-210 and the start of the for loop.
FetchReturn(items, tok, pim) ==
    /\ pc = "fetching"
    /\ LET r == [items |-> items, nextPageToken |-> tok, pollingIntervalMillis |-> pim]
       IN /\ resp' = r
          /\ next_page_token' = UpdatedToken(r, next_page_token)
    /\ idx' = 1
    /\ request' = NoRequest
    /\ pc' = "item"
    /\ UNCHANGED <<is_running, translator_var, chk_vars, skip_vars, uiPhase,
                   startResult, nthreads, clicks, seen, futures, collected, rows,
                   deathCause, fetchCount, fetchErrors, fetchesAfterStop, sleepsSince,
                   sleptFor, forwarded>>

\* The call raises: nothing in _poll_loop catches it, the thread ends.
FetchRaise ==
    /\ pc = "fetching"
    /\ request' = NoRequest
    /\ pc' = "dead"
    /\ deathCause' = "fetch"
    /\ fetchErrors' = fetchErrors + 1
    /\ UNCHANGED <<is_running, next_page_token, translator_var, chk_vars, skip_vars,
                   uiPhase, startResult, nthreads, clicks, resp, idx, seen, futures,
                   collected, rows, fetchCount, fetchesAfterStop, sleepsSince,
                   sleptFor, forwarded>>

\* The for loop is exhausted.
LoopEnd ==
    /\ pc = "item"
    /\ idx > Len(resp.items)
    /\ pc' = "sleep"
    /\ UNCHANGED <<is_running, next_page_token, translator_var, chk_vars, skip_vars,
                   uiPhase, startResult, nthreads, clicks, request, resp, idx, seen,
                   futures, collected, rows, deathCause, fetchCount, fetchErrors,
                   fetchesAfterStop, sleepsSince, sleptFor, forwarded>>

\* `if item["id"] in seen: continue`
SkipDuplicate ==
    /\ pc = "item"
    /\ idx <= Len(resp.items)
    /\ ~IsNew(CurItem.id, seen)
    /\ idx' = idx + 1
    /\ UNCHANGED <<is_running, next_page_token, translator_var, chk_vars, skip_vars,
                   uiPhase, startResult, nthreads, clicks, pc, request, resp, seen,
                   futures, collected, rows, deathCause, fetchCount, fetchErrors,
                   fetchesAfterStop, sleepsSince, sleptFor, forwarded>>

\* What every new item does first: seen.add and the call of _detect_language.
Forward ==
    /\ pc = "item"
    /\ idx <= Len(resp.items)
    /\ IsNew(CurItem.id, seen)
    /\ seen' = seen \cup {CurItem.id}
    /\ forwarded' = [forwarded EXCEPT ![CurItem.id] = @ + 1]

\* trans_google.detect raises: the thread ends with the id already in seen.
DetectRaise ==
    /\ Forward
    /\ pc' = "dead"
    /\ deathCause' = "detect"
    /\ UNCHANGED <<is_running, next_page_token, translator_var, chk_vars, skip_vars,
                   uiPhase, startResult, nthreads, clicks, request, resp, idx, futures,
                   collected, rows, fetchCount, fetchErrors, fetchesAfterStop,
                   sleepsSince, sleptFor>>

\* Lines 222-229: the detected language is skipped.
ProcessSkip ==
    /\ Forward
    /\ LET detected == detect_language(CurItem.text)
       IN /\ ShouldSkip(detected, skip_vars)
          /\ IF SinkOpen
             THEN /\ rows' = Append(rows, MsgRow("skip", CurItem, detected,
                                                 detected \in SkipSetNow, {}))
                  /\ idx' = idx + 1
                  /\ UNCHANGED <<pc, deathCause>>
             ELSE /\ pc' = "dead"
                  /\ deathCause' = "sink"
                  /\ UNCHANGED <<rows, idx>>
    /\ UNCHANGED <<is_running, next_page_token, translator_var, chk_vars, skip_vars,
                   uiPhase, startResult, nthreads, clicks, request, resp, futures,
                   collected, fetchCount, fetchErrors, fetchesAfterStop, sleepsSince,
                   sleptFor>>

\* Lines 222-246: the message is not skipped; the original row is written and
\* one task per target code is submitted.
ProcessOriginal ==
    /\ Forward
    /\ LET detected == detect_language(CurItem.text)
       IN /\ ~ShouldSkip(detected, skip_vars)
          /\ IF SinkOpen
             THEN /\ rows' = Append(rows, MsgRow("orig", CurItem, "original",
                                                 detected \in SkipSetNow, TargetsNow))
                  /\ futures' = [code \in target_codes(chk_vars) |-> Pending(CurItem.text)]
                  /\ collected' = {}
                  /\ pc' = "collect"
                  /\ UNCHANGED deathCause
             ELSE /\ pc' = "dead"
                  /\ deathCause' = "sink"
                  /\ UNCHANGED <<rows, futures, collected>>
    /\ UNCHANGED <<is_running, next_page_token, translator_var, chk_vars, skip_vars,
                   uiPhase, startResult, nthreads, clicks, request, resp, idx,
                   fetchCount, fetchErrors, fetchesAfterStop, sleepsSince, sleptFor>>

\* A worker thread runs one submitted _translate_free to its end.
TaskDone(code, answer) ==
    /\ code \in DOMAIN futures
    /\ futures[code].st = "pending"
    /\ answer \in BackendAnswers(translator_var)
    /\ LET out == translate_free(futures[code].text, code, translator_var, answer)
       IN futures' = [futures EXCEPT ![code] =
                          [st |-> out.st, val |-> out.val, text |-> @.text,
                           engine |-> translator_var, answer |-> answer]]
    /\ UNCHANGED <<is_running, next_page_token, translator_var, chk_vars, skip_vars,
                   uiPhase, startResult, nthreads, clicks, pc, request, resp, idx,
                   seen, collected, rows, deathCause, fetchCount, fetchErrors,
                   fetchesAfterStop, sleepsSince, sleptFor, forwarded>>

\* One turn of `for fut in as_completed(futures)`: lines 248-254.
Collect(code) ==
    /\ pc = "collect"
    /\ code \in DOMAIN futures \ collected
    /\ futures[code].st # "pending"
    /\ IF SinkOpen
       THEN /\ rows' = Append(rows, TransRow(CurItem, code, OutcomeText(futures, code)))
            /\ collected' = collected \cup {code}
            /\ UNCHANGED <<pc, deathCause>>
       ELSE /\ pc' = "dead"
            /\ deathCause' = "sink"
            /\ UNCHANGED <<rows, collected>>
    /\ UNCHANGED <<is_running, next_page_token, translator_var, chk_vars, skip_vars,
                   uiPhase, startResult, nthreads, clicks, request, resp, idx, seen,
                   futures, fetchCount, fetchErrors, fetchesAfterStop, sleepsSince,
                   sleptFor, forwarded>>

\* as_completed is exhausted: on to the next item.
CollectDone ==
    /\ pc = "collect"
    /\ BatchDone(futures, collected)
    /\ futures' = [code \in {c \in DOMAIN futures : futures[c].st = "pending"} |->
                       futures[code]]
    /\ collected' = {}
    /\ idx' = idx + 1
    /\ pc' = "item"
    /\ UNCHANGED <<is_running, next_page_token, translator_var, chk_vars, skip_vars,
                   uiPhase, startResult, nthreads, clicks, request, resp, seen, rows,
                   deathCause, fetchCount, fetchErrors, fetchesAfterStop, sleepsSince,
                   sleptFor, forwarded>>

\* time.sleep(interval)
Sleep ==
    /\ pc = "sleep"
    /\ sleepsSince' = sleepsSince + 1
    /\ sleptFor' = Interval(resp)
    /\ pc' = "test"
    /\ UNCHANGED <<is_running, next_page_token, translator_var, chk_vars, skip_vars,
                   uiPhase, startResult, nthreads, clicks, request, resp, idx, seen,
                   futures, collected, rows, deathCause, fetchCount, fetchErrors,
                   fetchesAfterStop, forwarded>>

UiNext ==
    \/ StartOk
    \/ StartFail
    \/ \E name \in UiNames : ToggleChk(name)
    \/ \E name \in UiNames : ToggleSkip(name)
    \/ \E i \in DOMAIN TRANSLATORS : SelectEngine(TRANSLATORS[i])
    \/ OnClose
    \/ OnCloseFinish

PollerNext ==
    \/ LoopTest
    \/ FetchCall
    \/ \E items \in Pages, tok \in PageTokens, pim \in PollingIntervals :
          FetchReturn(items, tok, pim)
    \/ FetchRaise
    \/ LoopEnd
    \/ SkipDuplicate
    \/ DetectRaise
    \/ ProcessSkip
    \/ ProcessOriginal
    \/ \E code \in ENABLED_LANGS : Collect(code)
    \/ CollectDone
    \/ Sleep

WorkerNext ==
    \E code \in ENABLED_LANGS, answer \in {"ok", "error", "neterr", "non2xx", "nofield",
                                           "unsupported"} : TaskDone(code, answer)

Next == UiNext \/ PollerNext \/ WorkerNext

Spec == Init /\ [][Next]_vars

\* The worker pool runs every submitted task to its end, and the poller thread,
\* once as_completed can yield or is exhausted, goes on.
FairSpec ==
    /\ Spec
    /\ WF_vars(WorkerNext)
    /\ WF_vars(\E code \in ENABLED_LANGS : Collect(code))
    /\ WF_vars(CollectDone)

\* ------------------------------------------------------------- the claims
MsgRowsOf(id) == {i \in DOMAIN rows : rows[i].id = id /\ rows[i].kind \in {"skip", "orig"}}
TransRowsOf(id, code) ==
    {i \in DOMAIN rows : rows[i].id = id /\ rows[i].kind = "trans" /\ rows[i].lang = code}
TransCodesOf(id) == {rows[i].lang : i \in {j \in DOMAIN rows :
                                            rows[j].id = id /\ rows[j].kind = "trans"}}
\* The poller is inside the processing of the item at idx.
Processing == pc \in {"collect", "dead"} /\ idx <= Len(resp.items)
\* The loop body has run to its end for the message id.
Completed(id) == id \in seen /\ ~(Processing /\ CurItem.id = id)
Pendings == {c \in DOMAIN futures : futures[c].st = "pending"}
Alive == pc \in {"test", "fetch", "fetching", "item", "collect", "sleep"}

\* C1: an id is forwarded to processing at most once, exactly once when an
\* item carrying it has been taken from a page, and it never gets a second
\* message row or a second row for one target language.
C1_DedupExactlyOnce ==
    /\ \A id \in MsgIds :
          /\ forwarded[id] = (IF id \in seen THEN 1 ELSE 0)
          /\ Cardinality(MsgRowsOf(id)) <= 1
          /\ \A code \in ENABLED_LANGS : Cardinality(TransRowsOf(id, code)) <= 1
    /\ pc \in {"item", "collect", "sleep", "dead"} =>
          \A i \in DOMAIN resp.items :
              (i < idx \/ (i = idx /\ pc = "collect")) => forwarded[resp.items[i].id] = 1
\* C1 witness: the second occurrence of m1 inside one page has been passed
\* over, m1 having been forwarded once.
C1_Witness ==
    /\ pc = "item" /\ idx = 3 /\ fetchCount = 1
    /\ resp.items = <<ChatItem("m1"), ChatItem("m1")>>
    /\ forwarded["m1"] = 1
    /\ Cardinality(MsgRowsOf("m1")) = 1

\* C2: the page token of the call in flight is the nextPageToken of the
\* response before it, the empty token on the first call.
C2_CursorChain ==
    pc = "fetching" =>
        /\ request.inflight
        /\ request.pageToken = (IF fetchCount = 1 \/ resp.nextPageToken = <<>> THEN ""
                                ELSE resp.nextPageToken[1])
\* C2 witness: the second call is in flight with the token of a first
\* response that carried no item.
C2_Witness ==
    /\ pc = "fetching" /\ fetchCount = 2
    /\ resp.items = <<>> /\ resp.nextPageToken = <<"tokA">>
    /\ request.pageToken = "tokA"

\* C3 (as claimed): after a fetch call has raised, and while no stop signal
\* was given, the poll loop is still running.
C3_FetchFailureSurvived == (fetchErrors > 0 /\ is_running) => Alive

\* C4 (as claimed): the poller is not held up by pending translation tasks:
\* in as_completed with a task still pending it can go on to the next item.
C4_PollerDoesNotWait == (pc = "collect" /\ Pendings # {}) => ENABLED CollectDone
\* C4 (amended): while a translation task of a message is pending the poller
\* is inside that message's as_completed loop (or has ended): it neither takes
\* the next item nor tests, fetches or sleeps.
C4_PollerWaits ==
    Pendings # {} => /\ Processing
                     /\ \A c \in Pendings : futures[c].text = CurItem.text
\* C4 witness: one outcome of the batch is written and the poller waits for
\* the other task.
C4_Witness == pc = "collect" /\ collected # {} /\ Pendings # {}

\* C5: the row of a yielded future carries that future's own outcome: its
\* value when it returned (the translation when the backend answered), the
\* error text when it raised - whatever the other futures of the batch did.
C5_FailureIsolated ==
    Processing =>
        \A c \in collected :
            /\ Cardinality(TransRowsOf(CurItem.id, c)) = 1
            /\ \A i \in TransRowsOf(CurItem.id, c) :
                  /\ futures[c].st = "returned" => rows[i].translated = futures[c].val
                  /\ futures[c].st = "raised" =>
                        rows[i].translated = "[Error] " \o futures[c].val
                  /\ futures[c].answer = "ok" =>
                        rows[i].translated = Translation(CurItem.text, c)
\* C5 witness: the task for en raised, the task for zh-CN answered; both rows
\* are written, the second with the translation, and the loop can go on.
C5_Witness ==
    /\ pc = "collect" /\ collected = {"en", "zh-CN"}
    /\ futures["en"].st = "raised" /\ futures["zh-CN"].answer = "ok"
    /\ \E i \in TransRowsOf("m1", "zh-CN") : rows[i].translated = "nihao"
    /\ \E i \in TransRowsOf("m1", "en") : rows[i].translated = "[Error] request failed"
    /\ ENABLED CollectDone

\* C6, the safety half: a message never has two outcome rows for one target
\* language nor a row for a language that was not a target, and once its loop
\* body has ended it has a row for every target.
C6_Safe ==
    \A id \in MsgIds : \A i \in MsgRowsOf(id) :
        rows[i].kind = "orig" =>
            /\ TransCodesOf(id) \subseteq rows[i].targets
            /\ \A code \in rows[i].targets : Cardinality(TransRowsOf(id, code)) <= 1
            /\ Completed(id) => TransCodesOf(id) = rows[i].targets
\* C6: with the tasks run to their end, a dispatch in a running session ends
\* with the batch complete (or the session is stopped meanwhile).
C6_FanOutComplete ==
    /\ []C6_Safe
    /\ (pc = "collect" /\ is_running) ~> (pc = "item" \/ ~is_running)
\* C6 witness: a message dispatched to two target languages has its loop body
\* ended with exactly the two rows, the zh-CN row written first.
C6_Witness ==
    /\ pc = "item" /\ Completed("m1")
    /\ \E i \in MsgRowsOf("m1") : rows[i].targets = {"en", "zh-CN"}
    /\ \E i \in TransRowsOf("m1", "zh-CN"), j \in TransRowsOf("m1", "en") : i < j
    /\ Cardinality({i \in DOMAIN rows : rows[i].id = "m1" /\ rows[i].kind = "trans"}) = 2

\* C7: a message whose loop body has ended has exactly one message row; when
\* its detected language was in the skip set that row is a skip row and there
\* is no translated row; otherwise it is an original row and there is exactly
\* one translated row per target language. A skipped message never has a
\* translated row.
C7_FilterCorrect ==
    \A id \in MsgIds :
        /\ (\E i \in MsgRowsOf(id) : rows[i].kind = "skip") => TransCodesOf(id) = {}
        /\ Completed(id) =>
              /\ Cardinality(MsgRowsOf(id)) = 1
              /\ \A i \in MsgRowsOf(id) :
                    IF rows[i].inSkipSet
                    THEN rows[i].kind = "skip" /\ TransCodesOf(id) = {}
                    ELSE /\ rows[i].kind = "orig"
                         /\ TransCodesOf(id) = rows[i].targets
                         /\ \A code \in rows[i].targets :
                               Cardinality(TransRowsOf(id, code)) = 1
\* C7 witness: in one page m1 was translated into its target and m2, whose
\* language the configuration skips, got its skip row.
C7_Witness ==
    /\ pc = "sleep" /\ Completed("m1") /\ Completed("m2")
    /\ \E i \in MsgRowsOf("m1") : rows[i].kind = "orig" /\ rows[i].targets # {}
    /\ \E i \in MsgRowsOf("m2") : rows[i].kind = "skip" /\ rows[i].inSkipSet

\* C8 (as claimed): no fetch call is started after the stop signal.
C8_NoFetchAfterStop == fetchesAfterStop = 0
\* C8 (amended): after the stop signal at most one fetch call is started, the
\* one whose loop test had passed before the signal: once a call was started
\* after the signal the loop is never again about to fetch.
C8_AtMostOneFetchAfterStop ==
    /\ fetchesAfterStop <= 1
    /\ (uiPhase # "main" /\ pc = "fetch") => fetchesAfterStop = 0
\* C8 witness: a fetch call was started with is_running already false.
C8_Witness == fetchesAfterStop = 1 /\ ~is_running /\ pc = "fetching"

\* C9: when the loop is about to fetch again, exactly one sleep has happened
\* since the previous fetch call, for the interval of the previous response
\* (2000 ms when it carried none).
C9_IntervalHonoured ==
    (pc = "fetch" /\ fetchCount >= 1) =>
        /\ sleepsSince = 1
        /\ sleptFor.num * 1000 =
              sleptFor.den * (IF resp.pollingIntervalMillis = <<>> THEN 2000
                              ELSE resp.pollingIntervalMillis[1])
\* C9 witness: after a page without items that gave 5000 ms the loop has
\* slept 5 s once and is about to fetch.
C9_Witness ==
    /\ pc = "fetch" /\ fetchCount = 1 /\ resp.items = <<>>
    /\ resp.pollingIntervalMillis = <<5000>>
    /\ sleepsSince = 1 /\ sleptFor = [num |-> 5000, den |-> 1000]

\* C10 (as claimed): with the engine "libre" no language is detected and no
\* message is skipped.
C10_LibreBypassesSkip ==
    \A i \in DOMAIN rows : rows[i].engine = "libre" => rows[i].kind # "skip"
\* C10 (amended): the language is detected and the skip test applied whatever
\* the engine: a message row written under "libre" is a skip row carrying the
\* detected language exactly when that language is in the skip set.
C10_LibreStillFilters ==
    \A i \in DOMAIN rows :
        rows[i].engine = "libre" =>
            /\ rows[i].kind = "skip" <=> rows[i].inSkipSet
            /\ rows[i].kind = "skip" => rows[i].lang = Lower(DetLang(rows[i].original))
            /\ Lower(DetLang(rows[i].original)) \in {Lower(c) : c \in SKIP_LANGS} =>
                  rows[i].kind = "skip"
\* C10 witness: under "libre" a message in a configured skip language got a
\* skip row with its detected language.
C10_Witness ==
    \E i \in DOMAIN rows :
        rows[i].engine = "libre" /\ rows[i].kind = "skip" /\ rows[i].lang = "zh-cn"

\* C11 (as claimed): with the engine "libre" a network error, a non-2xx answer
\* and an answer without translatedText each give an error outcome, never a
\* row that reads as a translation.
C11_LibreFailuresSurface ==
    Processing =>
        \A c \in collected :
            (futures[c].engine = "libre"
                 /\ futures[c].answer \in {"neterr", "non2xx", "nofield"}) =>
                /\ futures[c].st = "raised"
                /\ \A i \in TransRowsOf(CurItem.id, c) :
                      rows[i].translated = "[Error] " \o futures[c].val

\* C12: after a start() that failed to locate the chat no poller thread
\* exists, no fetch call was issued, is_running is false, and while the window
\* is open start() can be run again.
C12_StartFailureBeforePolling ==
    startResult = "failed" =>
        /\ nthreads = 0 /\ pc = "none"
        /\ fetchCount = 0 /\ ~request.inflight
        /\ ~is_running
        /\ uiPhase = "main" => ENABLED StartOk
\* C12 witness: start() has failed and the window is still open.
C12_Witness ==
    startResult = "failed" /\ uiPhase = "main" /\ ~is_running /\ ENABLED StartOk

\* C13 (as claimed): the languages a message is dispatched to are the
\* configured defaults united with the ticked targets, within the enabled ones.
C13_TargetsUnion ==
    pc = "collect" =>
        \A i \in MsgRowsOf(CurItem.id) :
            DOMAIN futures = (DEFAULT_LANGS \cup rows[i].targets) \cap ENABLED_LANGS
\* C13 (amended): the languages a message is dispatched to are the enabled
\* languages whose check box is ticked when it is processed; the defaults are
\* the ticks a run starts with.
C13_TargetsAreTicked ==
    pc = "collect" =>
        /\ \A i \in MsgRowsOf(CurItem.id) :
              DOMAIN futures = rows[i].targets \cap ENABLED_LANGS
        /\ clicks = 0 => DOMAIN futures = DEFAULT_LANGS \cap ENABLED_LANGS
\* C13 witness: the default target en was unticked and a message that is not
\* skipped is dispatched to no language.
C13_Witness ==
    /\ pc = "collect" /\ ~chk_vars["English"]
    /\ DOMAIN futures = {} /\ "en" \in DEFAULT_LANGS
    /\ \E i \in MsgRowsOf(CurItem.id) : rows[i].kind = "orig" /\ rows[i].targets = {}

\* C14: a message row is a skip row exactly when the detected language, in
\* lower case, is a configured skip language or has its skip check box ticked;
\* a skipped message has that one row, with the original text in both text
\* columns, and no translated row.
C14_SkipRule ==
    \A i \in DOMAIN rows :
        rows[i].kind \in {"skip", "orig"} =>
            /\ rows[i].kind = "skip" <=>
                  \/ Lower(DetLang(rows[i].original)) \in {Lower(c) : c \in SKIP_LANGS}
                  \/ rows[i].skipTicked
            /\ rows[i].kind = "skip" =>
                  /\ rows[i].lang = Lower(DetLang(rows[i].original))
                  /\ rows[i].translated = rows[i].original
                  /\ TransCodesOf(rows[i].id) = {}
                  /\ Cardinality(MsgRowsOf(rows[i].id)) = 1
\* C14 witness: a message in the configured skip language zh-CN was skipped
\* while the skip check box of that language was not ticked.
C14_Witness ==
    \E i \in DOMAIN rows :
        /\ rows[i].kind = "skip" /\ ~rows[i].skipTicked
        /\ rows[i].lang = "zh-cn" /\ "zh-CN" \in SKIP_LANGS

\* C15: every translated row comes after the original row of its message and
\* belongs to the same fetch cycle; rows follow the order of the page; and when
\* the loop sleeps, tests or fetches no task is pending and every message that
\* was not skipped has the rows of all its targets.
C15_OrderWithinCycle ==
    /\ \A j \in DOMAIN rows :
          rows[j].kind = "trans" =>
              \E i \in 1..(j - 1) :
                  /\ rows[i].kind = "orig" /\ rows[i].id = rows[j].id
                  /\ rows[i].fetchNo = rows[j].fetchNo
    /\ \A i, j \in DOMAIN rows :
          i < j => \/ rows[i].fetchNo < rows[j].fetchNo
                   \/ rows[i].fetchNo = rows[j].fetchNo /\ rows[i].pos <= rows[j].pos
    /\ pc \in {"sleep", "test", "fetch", "fetching"} =>
          /\ Pendings = {}
          /\ \A id \in seen : \A i \in MsgRowsOf(id) :
                rows[i].kind = "orig" => TransCodesOf(id) = rows[i].targets
\* C15 witness: a page with m1 and m2 gave the original row of m1, its
\* translated row and then the row of m2, before the sleep.
C15_Witness ==
    /\ pc = "sleep" /\ Len(rows) = 3
    /\ rows[1].kind = "orig" /\ rows[1].id = "m1"
    /\ rows[2].kind = "trans" /\ rows[2].id = "m1"
    /\ rows[3].id = "m2" /\ rows[3].fetchNo = rows[1].fetchNo

\* C16 (as claimed): the poller never comes to write a row after on_close has
\* closed the file; stopping never ends the poller thread by an exception.
C16_NoWriteAfterClose == deathCause # "sink"

\* C17 (as claimed): every id in seen has its message row, unless the file
\* was closed under the poller.
C17_SeenHasSinkEvent ==
    deathCause # "sink" => \A id \in seen : MsgRowsOf(id) # {}

\* C18: at most one poller thread is ever created, and while is_running is
\* true start() creates none.
C18_OnePoller ==
    /\ nthreads <= 1
    /\ nthreads = 0 <=> pc = "none"
    /\ is_running => ~ENABLED StartOk
\* C18 witness: the poller is fetching, the window is open and start() would
\* return at its first test.
C18_Witness ==
    /\ nthreads = 1 /\ is_running /\ uiPhase = "main" /\ pc = "fetching"
    /\ ~ENABLED StartOk

\* C19 (as claimed): before on_close, is_running true means the poll loop has
\* not ended.
C19_RunningImpliesAlive == (is_running /\ uiPhase = "main") => Alive

====
